---- MODULE Spec2Model ----
(***************************************************************************)
(* otter-pi: the sysfs attribute store (src/linux/sysfs.rs) and the        *)
(* scope-bound temporary directory (src/unix/temporary_directory.rs,       *)
(* src/unix/posix.rs, src/unix/convert.rs and the earlier                  *)
(* src/temporary_directory.rs), over one shared model of the filesystem.   *)
(*                                                                         *)
(* A path is a sequence of bytes; a byte is written as a one-character     *)
(* string, the nul byte as "NUL" and a byte that is not valid UTF-8 as     *)
(* "xFF".  The byte '.' does not occur in any path of the model, so the    *)
(* CurDir and ParentDir components of std::path never arise.               *)
(***************************************************************************)
EXTENDS Naturals, Sequences, FiniteSets, TLC

VARIABLES
    fsys,            \* the filesystem: component sequence -> node
    protected,       \* directories the caller made inaccessible (chmod)
    pc,              \* per thread: position inside TemporaryDirectory::new
    variant,         \* per thread: which TemporaryDirectory::new is running
    temp_dir,        \* per thread: what env::temp_dir() returned to the call
    template,        \* per thread: the raw template buffer handed to mkdtemp
    owned,           \* per thread: who owns the buffer ("rust" | "native" | "none";
                     \* "leaked" and "twice" record a buffer lost or reclaimed again)
    ptr,             \* per thread: what mkdtemp returned ("null" | "template")
    taken,           \* per thread: the name existed or was owned before mkdtemp
    errno,           \* per thread: the last-error channel
    error,           \* per thread: io::Error::last_os_error() as read
    path,            \* per thread: the CString reclaimed by from_raw
    result,          \* per thread: what the last new() returned
    handles,         \* handle id -> the live TemporaryDirectory values
    created,         \* number of handles new() has returned
    removals,        \* number of directory removals Drop has attempted
    SYSFS_ROOT_DIR,  \* the root the store joins identifiers onto
    path_cache,      \* Sysfs::path_cache, a set of <<key, value>> entries
    inserts,         \* identifier -> number of cache_path calls made for it
    resolved,        \* identifier -> the path its most recent operation used
    lastWritten,     \* identifier -> contents of its last successful write
    lastRead,        \* identifier -> result of its last read since any write
    last,            \* the most recent store operation, what it observed, and
                     \* whether it repeated a read with no write in between
    arg,             \* convert: the PathBuf passed to path_buf_to_c_string
    c_string,        \* convert: what path_buf_to_c_string returned
    path_buf,        \* convert: what c_string_to_path_buf made of that CString
    call,            \* per caller: the store operation it is inside, step by step
    borrow           \* the borrow state of the RefCell around path_cache

tvars == <<pc, variant, temp_dir, template, owned, ptr, taken, errno, error, path, result>>
hvars == <<handles, created, removals>>
svars == <<SYSFS_ROOT_DIR, path_cache, inserts, resolved, lastWritten, lastRead, last>>
cvars == <<arg, c_string, path_buf>>
rvars == <<call, borrow>>
ovars == <<cvars, rvars>>
vars == <<fsys, protected, hvars, tvars, svars, ovars>>

\* An absent value is <<>> and a present value v is <<v>>.
None == <<>>
Some(v) == <<v>>

(***************************************************************************)
(* Bounds of the model.                                                    *)
(***************************************************************************)
MaxHandles == 3
MaxLen == 4

Threads == {"t1", "t2"}

(***************************************************************************)
(* The inputs: the identifiers callers pass to the store, the contents     *)
(* they write, the roots, and the names mkdtemp may pick.                  *)
(***************************************************************************)
IdNpwm == <<"d", "/", "n">>
IdNpwmSlash == <<"d", "/", "n", "/">>
IdNew == <<"d", "/", "x">>
IdGone == <<"q", "/", "n">>
IdAbs == <<"/", "t", "m", "p", "/", "x">>
Ids == {IdNpwm, IdNpwmSlash, IdNew, IdGone, IdAbs}
Contents == {<<"0">>, <<"xFF">>}
Roots == {<<"/", "s", "y", "s">>}

Placeholder == <<"X", "X", "X", "X", "X", "X">>
Names == {<<"a", "a", "a", "a", "a", "a">>, <<"b", "b", "b", "b", "b", "b">>}
TempDirs == {<<"/", "t", "m", "p">>, <<"/", "t", "NUL">>}
Errnos == {"EACCES"}
Beneaths == {<<"f">>, <<"s">>}

(***************************************************************************)
(* std::path: components, equality, push/join.                             *)
(***************************************************************************)
HasRoot(p) == Len(p) > 0 /\ p[1] = "/"

\* PathBuf::push / Path::join: an absolute argument replaces the path;
\* otherwise a separator is added unless the path already ends with one.
Join(base, p) ==
    IF HasRoot(p) THEN p
    ELSE IF Len(base) > 0 /\ base[Len(base)] # "/"
         THEN base \o <<"/">> \o p
         ELSE base \o p

\* Every path the program forms from its inputs.
KnownPaths ==
    LET stored == {Join(r, id) : r \in Roots, id \in Ids}
        made == {Join(t, n) : t \in TempDirs, n \in Names \cup {Placeholder}}
        inside == {Join(m, b) : m \in made, b \in Beneaths}
    IN  Ids \cup Roots \cup TempDirs \cup stored \cup made \cup inside

RECURSIVE SplitFrom(_, _, _)
SplitFrom(p, i, cur) ==
    IF i > Len(p)
    THEN IF cur = <<>> THEN <<>> ELSE <<cur>>
    ELSE IF p[i] = "/"
         THEN IF cur = <<>>
              THEN SplitFrom(p, i + 1, <<>>)
              ELSE <<cur>> \o SplitFrom(p, i + 1, <<>>)
         ELSE SplitFrom(p, i + 1, Append(cur, p[i]))

\* Path::components: repeated separators and a trailing separator are
\* normalised away; the root, when present, is a component of its own.
ComponentsOf(p) == [root |-> HasRoot(p), names |-> SplitFrom(p, 1, <<>>)]

\* The components of the paths the program forms, computed once.
ComponentsMemo == [p \in KnownPaths |-> ComponentsOf(p)]

Components(p) == IF p \in KnownPaths THEN ComponentsMemo[p] ELSE ComponentsOf(p)

\* impl PartialEq for Path (and Hash, which agrees with it): by components.
PathEq(p, q) == Components(p) = Components(q)

TrailingSlash(p) == Len(p) > 0 /\ p[Len(p)] = "/" /\ SplitFrom(p, 1, <<>>) # <<>>

(***************************************************************************)
(* The filesystem as the kernel resolves paths: fsys maps the component    *)
(* sequence of an absolute path to a directory or a file with its bytes.   *)
(***************************************************************************)
Dir == [kind |-> "dir"]
File(data) == [kind |-> "file", data |-> data]

Key(p) == Components(p).names

Exists(k) == k \in DOMAIN fsys
IsDir(k) == Exists(k) /\ fsys[k].kind = "dir"
IsFile(k) == Exists(k) /\ fsys[k].kind = "file"

Ancestors(k) == {SubSeq(k, 1, n) : n \in 0 .. Len(k) - 1}
Parent(k) == SubSeq(k, 1, Len(k) - 1)
Beneath(k) == {c \in DOMAIN fsys : Len(c) > Len(k) /\ SubSeq(c, 1, Len(k)) = k}

\* The error of walking to the parent of k: "" when every ancestor is a
\* directory that may be searched, else the error of the first that is not.
WalkError(k) ==
    LET bad == {a \in Ancestors(k) : ~IsDir(a) \/ a \in protected}
    IN  IF bad = {} THEN ""
        ELSE LET first == CHOOSE a \in bad : \A b \in bad : Len(a) <= Len(b)
             IN  IF ~Exists(first) THEN "NotFound"
                 ELSE IF ~IsDir(first) THEN "NotADirectory"
                 ELSE "PermissionDenied"

Ok(v) == [ok |-> TRUE, val |-> v]
Err(e) == [ok |-> FALSE, err |-> e]

(***************************************************************************)
(* std::fs as the store and the tests use it.                              *)
(***************************************************************************)
\* fs::read: open the path and read it to the end.
fs_read(p) ==
    LET k == Key(p)
    IN  IF WalkError(k) # "" THEN Err(WalkError(k))
        ELSE IF ~Exists(k) THEN Err("NotFound")
        ELSE IF IsDir(k) THEN Err("IsADirectory")
        ELSE IF TrailingSlash(p) THEN Err("NotADirectory")
        ELSE Ok(fsys[k].data)

\* fs::read_to_string: fs::read, then the bytes must be valid UTF-8.
fs_read_to_string(p) ==
    LET r == fs_read(p)
    IN  IF r.ok /\ \E i \in 1 .. Len(r.val) : r.val[i] = "xFF"
        THEN Err("InvalidData")
        ELSE r

\* fs::write: File::create (create or truncate), then write_all.
fs_write_result(p) ==
    LET k == Key(p)
    IN  IF WalkError(k) # "" THEN Err(WalkError(k))
        ELSE IF IsDir(k) THEN Err("IsADirectory")
        ELSE IF IsFile(k) /\ TrailingSlash(p) THEN Err("NotADirectory")
        ELSE IF ~Exists(k) /\ TrailingSlash(p) THEN Err("IsADirectory")
        ELSE Ok("unit")

\* What a successful fs::write leaves: the file holds exactly contents.
fs_write_effect(p, contents) == (Key(p) :> File(contents)) @@ fsys

(***************************************************************************)
(* Sysfs (src/linux/sysfs.rs).  The HashMap<PathBuf, PathBuf> is a set of  *)
(* <<key, value>> entries whose keys are pairwise unequal as Paths.        *)
(***************************************************************************)
Panic == <<"panic">>

\* Mutant: the insert is lost.
cache_path_forgetting(cache, attribute_path, p) == cache

\* Mutant: the map holds one entry; an insert evicts the others.
cache_path_evicting(cache, attribute_path, p) == {<<attribute_path, p>>}

\* HashMap::insert: an equal key keeps the stored key and takes the new
\* value; otherwise the entry is added.
cache_path(cache, attribute_path, p) ==
    IF \E e \in cache : PathEq(e[1], attribute_path)
    THEN {IF PathEq(e[1], attribute_path) THEN <<e[1], p>> ELSE e : e \in cache}
    ELSE cache \cup {<<attribute_path, p>>}

\* Mutant: the presence test always misses.
has_cached_path_never(cache, p) == FALSE

\* cache.contains_key(path)
has_cached_path(cache, p) == \E e \in cache : PathEq(e[1], p)

\* Mutant: the lookup compares the keys byte by byte.
get_cached_path_exact(cache, p) ==
    IF \E e \in cache : e[1] = p
    THEN (CHOOSE e \in cache : e[1] = p)[2]
    ELSE Panic

\* cache.get(path).expect("path should be cached")
get_cached_path(cache, p) ==
    IF \E e \in cache : PathEq(e[1], p)
    THEN (CHOOSE e \in cache : PathEq(e[1], p))[2]
    ELSE Panic

resolve_attribute_path(attribute_path) == Join(SYSFS_ROOT_DIR, attribute_path)

\* The cache as resolve_path leaves it, and the path it returns.
resolve_path_cache(cache, attribute_path) ==
    IF ~has_cached_path(cache, attribute_path)
    THEN cache_path(cache, attribute_path, resolve_attribute_path(attribute_path))
    ELSE cache

resolve_path(cache, attribute_path) ==
    get_cached_path(resolve_path_cache(cache, attribute_path), attribute_path)


Min(a, b) == IF a < b THEN a ELSE b

\* What every store operation does before its I/O (resolve_path), and the
\* record it leaves of what it observed.
Resolved(op, id, p, res) ==
    /\ path_cache' = resolve_path_cache(path_cache, id)
    /\ inserts' = [inserts EXCEPT ![id] =
          IF has_cached_path(path_cache, id) THEN @ ELSE Min(@ + 1, 2)]
    /\ resolved' = [resolved EXCEPT ![id] = Some(p)]
    /\ last' = [op |-> op, id |-> id,
                res |-> IF p = Panic THEN Err("panic") ELSE res,
                again |-> op = "read" /\ lastRead[id] # None]

\* let path_ref = self.resolve_path(path); fs::read(path_ref.as_path())
read(id) ==
    \E p \in {resolve_path(path_cache, id)} :
    \E res \in {fs_read(p)} :
        /\ Resolved("read", id, p, res)
        /\ lastRead' = [lastRead EXCEPT ![id] = Some(res)]
        /\ UNCHANGED <<fsys, lastWritten, protected, hvars, tvars, SYSFS_ROOT_DIR, ovars>>

\* let path_ref = self.resolve_path(path); fs::read_to_string(path_ref.as_path())
read_to_string(id) ==
    \E p \in {resolve_path(path_cache, id)} :
    \E res \in {fs_read_to_string(p)} :
        /\ Resolved("read_to_string", id, p, res)
        /\ UNCHANGED <<fsys, lastWritten, lastRead, protected, hvars, tvars, SYSFS_ROOT_DIR, ovars>>

\* let path_ref = self.resolve_path(path); fs::write(path_ref.as_path(), contents)
write(id, contents) ==
    \E p \in {resolve_path(path_cache, id)} :
    \E res \in {fs_write_result(p)} :
        /\ Resolved("write", id, p, res)
        /\ fsys' = IF p # Panic /\ res.ok THEN fs_write_effect(p, contents) ELSE fsys
        /\ lastWritten' = IF p # Panic /\ res.ok
                          THEN [lastWritten EXCEPT ![id] = Some(contents)]
                          ELSE lastWritten
        /\ lastRead' = [i \in Ids |-> None]
        /\ UNCHANGED <<protected, hvars, tvars, SYSFS_ROOT_DIR, ovars>>

\* Mutant: the root is kept in a cell that may be set again.
mock_sysfs_dir_resetting(name) ==
    /\ SYSFS_ROOT_DIR' = Join(<<"/", "t", "m", "p">>, name)
    /\ last' = [op |-> "set", id |-> name, res |-> Ok("unit"), again |-> FALSE]
    /\ UNCHANGED <<fsys, protected, hvars, tvars, path_cache, inserts, resolved,
                   lastWritten, lastRead, ovars>>

\* tests::mock_sysfs_dir called again on the thread of a store; name is the
\* directory it would make the root.  The OnceCell is set already:
\* cell.set(..) returns Err, the expect panics, and the unwinding removes the
\* directory the call had created.
mock_sysfs_dir(name) ==
    /\ last' = [op |-> "set", id |-> name, res |-> Err("panic"), again |-> FALSE]
    /\ UNCHANGED <<fsys, protected, hvars, tvars, SYSFS_ROOT_DIR, path_cache,
                   inserts, resolved, lastWritten, lastRead, ovars>>

StoreStep ==
    \/ \E id \in Ids : read(id)
    \/ \E id \in Ids : read_to_string(id)
    \/ \E id \in Ids, c \in Contents : write(id, c)

(***************************************************************************)
(* The store operations step by step, with the borrows of the RefCell.     *)
(* A Ref taken inside an expression lives until the end of its statement;  *)
(* the Ref that resolve_path returns lives until the operation returns.    *)
(***************************************************************************)
Callers == {"c1", "c2"}

Idle == [pc |-> "idle", op |-> "none", id |-> <<>>, contents |-> <<>>,
         path |-> <<>>, path_ref |-> None]

Unborrowed == [shared |-> 0, mut |-> FALSE]

\* A panic unwinds every frame on the stack; the Refs they hold are dropped.
Unwind ==
    /\ call' = [c \in Callers |->
                  IF call[c].pc = "idle" THEN call[c] ELSE [Idle EXCEPT !.pc = "panicked"]]
    /\ borrow' = Unborrowed

\* A caller enters read, read_to_string or write: resolve_path(path) begins.
enter(c, op, id, contents) ==
    /\ call[c].pc = "idle"
    /\ call' = [call EXCEPT ![c] = [Idle EXCEPT !.pc = "has_cached_path", !.op = op,
                                                 !.id = id, !.contents = contents]]
    /\ UNCHANGED <<fsys, protected, hvars, tvars, svars, cvars, borrow>>

\* has_cached_path: self.path_cache.borrow()
has_cached_path_borrow(c) ==
    /\ call[c].pc = "has_cached_path"
    /\ IF borrow.mut
       THEN Unwind
       ELSE /\ borrow' = [borrow EXCEPT !.shared = @ + 1]
            /\ call' = [call EXCEPT ![c].pc = "contains_key"]
    /\ UNCHANGED <<fsys, protected, hvars, tvars, svars, cvars>>

\* Mutant: the Ref of the membership test is kept until the operation returns.
contains_key_holding(c) ==
    /\ call[c].pc = "contains_key"
    /\ call' = [call EXCEPT ![c].pc =
          IF has_cached_path(path_cache, call[c].id)
          THEN "get_cached_path" ELSE "resolve_attribute_path"]
    /\ UNCHANGED <<fsys, protected, hvars, tvars, svars, cvars, borrow>>

\* has_cached_path: .contains_key(path); the Ref is dropped with the statement.
contains_key(c) ==
    /\ call[c].pc = "contains_key"
    /\ borrow' = [borrow EXCEPT !.shared = @ - 1]
    /\ call' = [call EXCEPT ![c].pc =
          IF has_cached_path(path_cache, call[c].id)
          THEN "get_cached_path" ELSE "resolve_attribute_path"]
    /\ UNCHANGED <<fsys, protected, hvars, tvars, svars, cvars>>

\* let path = Self::resolve_attribute_path(attribute_path);
join(c) ==
    /\ call[c].pc = "resolve_attribute_path"
    /\ call' = [call EXCEPT ![c].pc = "cache_path",
                            ![c].path = resolve_attribute_path(call[c].id)]
    /\ UNCHANGED <<fsys, protected, hvars, tvars, svars, cvars, borrow>>

\* cache_path: self.path_cache.borrow_mut()
cache_path_borrow_mut(c) ==
    /\ call[c].pc = "cache_path"
    /\ IF borrow.mut \/ borrow.shared > 0
       THEN Unwind
       ELSE /\ borrow' = [borrow EXCEPT !.mut = TRUE]
            /\ call' = [call EXCEPT ![c].pc = "insert"]
    /\ UNCHANGED <<fsys, protected, hvars, tvars, svars, cvars>>

\* cache_path: .insert(attribute_path, path); the RefMut is dropped.
insert(c) ==
    /\ call[c].pc = "insert"
    /\ path_cache' = cache_path(path_cache, call[c].id, call[c].path)
    /\ borrow' = [borrow EXCEPT !.mut = FALSE]
    /\ call' = [call EXCEPT ![c].pc = "get_cached_path", ![c].path = <<>>]
    /\ UNCHANGED <<fsys, protected, hvars, tvars, SYSFS_ROOT_DIR, inserts, resolved,
                   lastWritten, lastRead, last, cvars>>

\* get_cached_path: Ref::map(self.path_cache.borrow(), |cache| cache.get(path)
\* .expect(..)); the Ref is returned to the operation.
get_cached_path_borrow(c) ==
    /\ call[c].pc = "get_cached_path"
    /\ IF borrow.mut \/ get_cached_path(path_cache, call[c].id) = Panic
       THEN Unwind /\ UNCHANGED resolved
       ELSE /\ borrow' = [borrow EXCEPT !.shared = @ + 1]
            /\ call' = [call EXCEPT ![c].pc = "io",
                  ![c].path_ref = Some(get_cached_path(path_cache, call[c].id))]
            /\ resolved' = [resolved EXCEPT ![call[c].id] =
                  Some(get_cached_path(path_cache, call[c].id))]
    /\ UNCHANGED <<fsys, protected, hvars, tvars, SYSFS_ROOT_DIR, path_cache, inserts,
                   lastWritten, lastRead, last, cvars>>

\* fs::read / fs::read_to_string / fs::write on path_ref.as_path()
fs_call(c) ==
    /\ call[c].pc = "io"
    /\ fsys' = IF call[c].op = "write" /\ fs_write_result(call[c].path_ref[1]).ok
               THEN fs_write_effect(call[c].path_ref[1], call[c].contents)
               ELSE fsys
    /\ call' = [call EXCEPT ![c].pc = "return"]
    /\ UNCHANGED <<protected, hvars, tvars, svars, cvars, borrow>>

\* The operation returns: path_ref goes out of scope.
return(c) ==
    /\ call[c].pc = "return"
    /\ borrow' = [borrow EXCEPT !.shared = @ - 1]
    /\ call' = [call EXCEPT ![c] = Idle]
    /\ UNCHANGED <<fsys, protected, hvars, tvars, svars, cvars>>

\* The identifiers and operations of the stepwise callers.
StepIds == {IdNpwm, IdNpwmSlash, IdNew}
Ops == {"read", "read_to_string", "write"}

\* The steps of caller c.
OperationStep(c) ==
    \/ \E op \in Ops, id \in StepIds :
          \E contents \in (IF op = "write" THEN Contents ELSE {<<>>}) :
              enter(c, op, id, contents)
    \/ has_cached_path_borrow(c)
    \/ contains_key(c)
    \/ join(c)
    \/ cache_path_borrow_mut(c)
    \/ insert(c)
    \/ get_cached_path_borrow(c)
    \/ fs_call(c)
    \/ return(c)

(***************************************************************************)
(* Temporary directories.  new() runs as the steps of create_temp_dir, one *)
(* thread at a time or interleaved.  A caller never removes or renames a   *)
(* directory that a live handle owns.                                      *)
(***************************************************************************)

\* CString::new: an interior nul byte is an error.
HasNul(bytes) == \E i \in 1 .. Len(bytes) : bytes[i] = "NUL"

\* A CString is its bytes followed by the nul terminator.
\* Mutant: the bytes are not searched for a nul byte (from_vec_unchecked).
path_buf_to_c_string_unchecked(p) == Ok(Append(p, "NUL"))

\* Mutant: the bytes are cut at their first nul byte.
path_buf_to_c_string_until_nul(p) ==
    IF HasNul(p)
    THEN LET n == CHOOSE i \in 1 .. Len(p) :
                     p[i] = "NUL" /\ \A j \in 1 .. i - 1 : p[j] # "NUL"
         IN  Ok(SubSeq(p, 1, n))
    ELSE Ok(Append(p, "NUL"))

\* CString::new(path_buf.into_os_string().into_vec()): the bytes of the path
\* and the terminator, or an error when a byte of the path is nul.
path_buf_to_c_string(p) ==
    IF HasNul(p) THEN Err("NulError") ELSE Ok(Append(p, "NUL"))

\* Mutant: the bytes are taken with their nul terminator (into_bytes_with_nul).
c_string_to_path_buf_with_nul(c) == c

\* PathBuf::from(OsString::from_vec(c_string.into_bytes()))
c_string_to_path_buf(c) == SubSeq(c, 1, Len(c) - 1)

\* The C string a native function reads in a buffer: the bytes before the
\* terminator.
to_bytes(c) == SubSeq(c, 1, Len(c) - 1)

\* The paths handed to the conversions: every byte string up to MaxLen over
\* a separator, a plain byte and the nul byte.
Bytes == {"/", "f", "NUL"}
PathBufs == UNION {[1 .. n -> Bytes] : n \in 0 .. MaxLen}

\* A caller converts a path: path_buf_to_c_string(p).
call_path_buf_to_c_string ==
    \E p \in PathBufs :
        /\ arg' = p
        /\ c_string' = Some(path_buf_to_c_string(p))
        /\ path_buf' = None
        /\ UNCHANGED <<fsys, protected, hvars, tvars, svars, rvars>>

\* The caller converts the CString it got back: c_string_to_path_buf(c).
call_c_string_to_path_buf ==
    /\ c_string # None
    /\ c_string[1].ok
    /\ path_buf = None
    /\ path_buf' = Some(c_string_to_path_buf(c_string[1].val))
    /\ UNCHANGED <<fsys, protected, hvars, tvars, svars, arg, c_string, rvars>>

ConvertStep == call_path_buf_to_c_string \/ call_c_string_to_path_buf

\* env::temp_dir(), here d, with "XXXXXX" pushed, as a C string.
get_temp_dir_template(d) == path_buf_to_c_string(Join(d, Placeholder))

\* The error new() returns for a template with a nul byte: the unix variant
\* converts the NulError into an io::Error of kind InvalidInput, the earlier
\* variant boxes the NulError; neither holds an OS error code.
NulFailure(v) ==
    IF v = "unix"
    THEN [kind |-> "InvalidInput", code |-> None]
    ELSE [kind |-> "NulError", code |-> None]

\* io::Error::last_os_error(): the error that wraps the errno value.
OsFailure(e) == [kind |-> "Os", code |-> Some(e)]

Returned(res, wasCalled) ==
    IF res.ok
    THEN Some([ok |-> TRUE, val |-> res.val, called |-> wasCalled])
    ELSE Some([ok |-> FALSE, err |-> res.err, called |-> wasCalled])

\* TemporaryDirectory::new up to the hand-over of the buffer (into_raw);
\* d is what env::temp_dir() returns to this call.
new(t, v, d) ==
    /\ pc[t] = "idle"
    /\ created < MaxHandles
    /\ variant' = [variant EXCEPT ![t] = v]
    /\ temp_dir' = [temp_dir EXCEPT ![t] = d]
    /\ IF get_temp_dir_template(d).ok
       THEN /\ template' = [template EXCEPT ![t] = get_temp_dir_template(d).val]
            /\ owned' = [owned EXCEPT ![t] = "native"]
            /\ pc' = [pc EXCEPT ![t] = "mkdtemp"]
            /\ result' = [result EXCEPT ![t] = None]
       ELSE /\ result' = [result EXCEPT ![t] = Returned(Err(NulFailure(v)), FALSE)]
            /\ UNCHANGED <<template, owned, pc>>
    /\ UNCHANGED <<fsys, protected, hvars, ptr, taken, errno, error, path, svars, ovars>>

\* The template with its six placeholder bytes replaced by name.
Substitute(tmpl, name) ==
    SubSeq(tmpl, 1, Len(tmpl) - Len(Placeholder) - 1) \o name \o <<"NUL">>

\* mkdtemp succeeds: it creates, atomically, a directory whose name did not
\* exist, writes the name into the buffer and returns the buffer.
mkdtemp_ok(t) ==
    /\ pc[t] = "mkdtemp"
    /\ \E name \in Names :
          LET k == Key(to_bytes(Substitute(template[t], name)))
          IN  /\ ~Exists(k)
              /\ WalkError(k) = ""
              /\ fsys' = [f \in DOMAIN fsys \cup {k} |-> IF f = k THEN Dir ELSE fsys[f]]
              /\ template' = [template EXCEPT ![t] = Substitute(template[t], name)]
              /\ taken' = [taken EXCEPT ![t] =
                    \/ Exists(k)
                    \/ \E i \in DOMAIN handles : Key(handles[i].path) = k]
    /\ ptr' = [ptr EXCEPT ![t] = "template"]
    /\ pc' = [pc EXCEPT ![t] = "last_os_error"]
    /\ UNCHANGED <<protected, hvars, variant, temp_dir, owned, errno, error, path, result, svars, ovars>>

\* Mutant: the function returns as soon as mkdtemp has returned null.
mkdtemp_null_returning(t) ==
    /\ pc[t] = "mkdtemp"
    /\ \E e \in Errnos : errno' = [errno EXCEPT ![t] = e]
    /\ ptr' = [ptr EXCEPT ![t] = "null"]
    /\ error' = [error EXCEPT ![t] = errno'[t]]
    /\ pc' = [pc EXCEPT ![t] = "return"]
    /\ UNCHANGED <<fsys, protected, hvars, variant, temp_dir, template, owned, taken, path, result, svars, ovars>>

\* mkdtemp fails: it returns null and sets errno.
mkdtemp_null(t) ==
    /\ pc[t] = "mkdtemp"
    /\ \E e \in Errnos \cup {"EEXIST"} :
          /\ e = "EEXIST" =>
                \A name \in Names : Exists(Key(to_bytes(Substitute(template[t], name))))
          /\ errno' = [errno EXCEPT ![t] = e]
    /\ ptr' = [ptr EXCEPT ![t] = "null"]
    /\ pc' = [pc EXCEPT ![t] = "last_os_error"]
    /\ UNCHANGED <<fsys, protected, hvars, variant, temp_dir, template, owned, taken, error, path, result, svars, ovars>>

\* let result = unsafe { mkdtemp(template) };
mkdtemp(t) == mkdtemp_ok(t) \/ mkdtemp_null(t)

\* Mutant: the channel read is the one another thread wrote.
last_os_error_shared(t) ==
    /\ pc[t] = "last_os_error"
    /\ error' = [error EXCEPT ![t] = errno[CHOOSE u \in Threads : u # t]]
    /\ pc' = [pc EXCEPT ![t] = "from_raw"]
    /\ UNCHANGED <<fsys, protected, hvars, variant, temp_dir, template, owned, ptr, taken, errno, path, result, svars, ovars>>

\* let error = io::Error::last_os_error();
last_os_error(t) ==
    /\ pc[t] = "last_os_error"
    /\ error' = [error EXCEPT ![t] = errno[t]]
    /\ pc' = [pc EXCEPT ![t] = "from_raw"]
    /\ UNCHANGED <<fsys, protected, hvars, variant, temp_dir, template, owned, ptr, taken, errno, path, result, svars, ovars>>

\* Mutant: the CString is built from a copy of the template made before the
\* call, and the buffer handed to mkdtemp is freed.
from_raw_of_copy(t) ==
    /\ pc[t] = "from_raw"
    /\ path' = [path EXCEPT ![t] = get_temp_dir_template(temp_dir[t]).val]
    /\ template' = [template EXCEPT ![t] = <<>>]
    /\ owned' = [owned EXCEPT ![t] = IF owned[t] = "native" THEN "rust" ELSE "twice"]
    /\ pc' = [pc EXCEPT ![t] = "return"]
    /\ UNCHANGED <<fsys, protected, hvars, variant, temp_dir, ptr, taken, errno, error, result, svars, ovars>>

\* let path = unsafe { CString::from_raw(template) };
from_raw(t) ==
    /\ pc[t] = "from_raw"
    /\ path' = [path EXCEPT ![t] = template[t]]
    /\ template' = [template EXCEPT ![t] = <<>>]
    /\ owned' = [owned EXCEPT ![t] = IF owned[t] = "native" THEN "rust" ELSE "twice"]
    /\ pc' = [pc EXCEPT ![t] = "return"]
    /\ UNCHANGED <<fsys, protected, hvars, variant, temp_dir, ptr, taken, errno, error, result, svars, ovars>>

\* Mutant: the path is rebuilt from the template as it was before the call.
owned_path_from_template(t) == Join(temp_dir[t], Placeholder)

\* The path the handle owns: the reclaimed buffer, as a PathBuf.
owned_path(t) == c_string_to_path_buf(path[t])

\* if result.is_null() { Err(error) } else { Ok(Self { path }) }; the locals
\* of the call end with it.
finish(t) ==
    /\ pc[t] = "return"
    /\ IF ptr[t] = "null"
       THEN /\ result' = [result EXCEPT ![t] = Returned(Err(OsFailure(error[t])), TRUE)]
            /\ UNCHANGED <<handles, created>>
       ELSE /\ result' = [result EXCEPT ![t] = Returned(Ok(owned_path(t)), TRUE)]
            /\ created' = created + 1
            /\ handles' = [i \in DOMAIN handles \cup {created + 1} |->
                  IF i = created + 1
                  THEN [path |-> owned_path(t), variant |-> variant[t],
                        root |-> temp_dir[t], taken |-> taken[t]]
                  ELSE handles[i]]
    /\ pc' = [pc EXCEPT ![t] = "idle"]
    /\ owned' = [owned EXCEPT ![t] = IF owned[t] = "rust" THEN "none" ELSE "leaked"]
    /\ path' = [path EXCEPT ![t] = <<>>]
    /\ ptr' = [ptr EXCEPT ![t] = "null"]
    /\ taken' = [taken EXCEPT ![t] = FALSE]
    /\ error' = [error EXCEPT ![t] = "0"]
    /\ UNCHANGED <<fsys, protected, removals, variant, temp_dir, template, errno, svars, ovars>>

\* fs::remove_dir_all: the directory is opened and emptied, then removed.
remove_dir_all_result(p) ==
    IF WalkError(Key(p)) # "" THEN Err(WalkError(Key(p)))
    ELSE IF ~Exists(Key(p)) THEN Err("NotFound")
    ELSE IF Key(p) \in protected THEN Err("PermissionDenied")
    ELSE Ok("unit")

\* fs::remove_dir: rmdir, which removes an empty directory only.
remove_dir_result(p) ==
    IF WalkError(Key(p)) # "" THEN Err(WalkError(Key(p)))
    ELSE IF ~Exists(Key(p)) THEN Err("NotFound")
    ELSE IF Beneath(Key(p)) # {} THEN Err("DirectoryNotEmpty")
    ELSE Ok("unit")

Without(gone) == [k \in DOMAIN fsys \ gone |-> fsys[k]]

\* Mutant: a failed removal is tried again.
drop_unix_retry(i) ==
    /\ handles[i].variant = "unix"
    /\ removals' = removals + (IF remove_dir_all_result(handles[i].path).ok THEN 1 ELSE 2)
    /\ LET k == Key(handles[i].path)
       IN  IF remove_dir_all_result(handles[i].path).ok
           THEN /\ fsys' = Without({k} \cup Beneath(k))
                /\ protected' = protected \ ({k} \cup Beneath(k))
           ELSE UNCHANGED <<fsys, protected>>

\* unix::temporary_directory: let _ = fs::remove_dir_all(&self.path);
drop_unix(i) ==
    /\ handles[i].variant = "unix"
    /\ removals' = removals + 1
    /\ LET k == Key(handles[i].path)
       IN  IF remove_dir_all_result(handles[i].path).ok
           THEN /\ fsys' = Without({k} \cup Beneath(k))
                /\ protected' = protected \ ({k} \cup Beneath(k))
           ELSE UNCHANGED <<fsys, protected>>

\* temporary_directory: let _ = fs::remove_dir(&self.path);
drop_legacy(i) ==
    /\ handles[i].variant = "legacy"
    /\ removals' = removals + 1
    /\ LET k == Key(handles[i].path)
       IN  IF remove_dir_result(handles[i].path).ok
           THEN /\ fsys' = Without({k})
                /\ protected' = protected \ {k}
           ELSE UNCHANGED <<fsys, protected>>

\* Mutant: a failed removal is reported as the result of the thread's call.
drop_surfacing(i) ==
    /\ drop_unix(i) \/ drop_legacy(i)
    /\ handles' = [j \in DOMAIN handles \ {i} |-> handles[j]]
    /\ result' = IF Exists(Key(handles[i].path)) /\ Key(handles[i].path) \in DOMAIN fsys'
                 THEN [result EXCEPT !["t1"] = Returned(Err(OsFailure("EACCES")), TRUE)]
                 ELSE result
    /\ UNCHANGED <<created, pc, variant, temp_dir, template, owned, ptr, taken,
                   errno, error, path, svars, ovars>>

\* The handle goes out of scope: Drop runs and the value is gone.
drop(i) ==
    /\ drop_unix(i) \/ drop_legacy(i)
    /\ handles' = [j \in DOMAIN handles \ {i} |-> handles[j]]
    /\ UNCHANGED <<created, tvars, svars, ovars>>

\* The caller writes a file beneath the directory (fs::write(path.join(..))).
add_file(i) ==
    /\ ~Exists(Key(Join(handles[i].path, <<"f">>)))
    /\ fs_write_result(Join(handles[i].path, <<"f">>)).ok
    /\ fsys' = fs_write_effect(Join(handles[i].path, <<"f">>), <<"0">>)
    /\ UNCHANGED <<protected, hvars, tvars, svars, ovars>>

\* The caller creates a sub-directory beneath the directory.
add_dir(i) ==
    LET k == Key(Join(handles[i].path, <<"s">>))
    IN  /\ WalkError(k) = ""
        /\ ~Exists(k)
        /\ fsys' = [f \in DOMAIN fsys \cup {k} |-> IF f = k THEN Dir ELSE fsys[f]]
        /\ UNCHANGED <<protected, hvars, tvars, svars, ovars>>

\* The caller takes away the permissions of the directory.
chmod(i) ==
    /\ Key(handles[i].path) \notin protected
    /\ protected' = protected \cup {Key(handles[i].path)}
    /\ UNCHANGED <<fsys, hvars, tvars, svars, ovars>>

(***************************************************************************)
(* The initial state: the mock sysfs tree of the tests under the root, the *)
(* temporary-file root, no handle, an empty cache.                         *)
(***************************************************************************)

InitialFiles ==
    LET s == <<"s", "y", "s">>
        d == <<"d">>
    IN  (<<>> :> Dir) @@ (<<s>> :> Dir) @@ (<<s, d>> :> Dir)
        @@ (<<s, d, <<"n">>>> :> File(<<"1">>))
        @@ (<<s, d, <<"e">>>> :> File(<<>>))
        @@ (<<<<"t", "m", "p">>>> :> Dir)

Init ==
    /\ fsys = InitialFiles
    /\ protected = {}
    /\ pc = [t \in Threads |-> "idle"]
    /\ variant = [t \in Threads |-> "unix"]
    /\ temp_dir = [t \in Threads |-> <<>>]
    /\ template = [t \in Threads |-> <<>>]
    /\ owned = [t \in Threads |-> "none"]
    /\ ptr = [t \in Threads |-> "null"]
    /\ taken = [t \in Threads |-> FALSE]
    /\ errno = [t \in Threads |-> "0"]
    /\ error = [t \in Threads |-> "0"]
    /\ path = [t \in Threads |-> <<>>]
    /\ result = [t \in Threads |-> None]
    /\ handles = <<>>
    /\ created = 0
    /\ removals = 0
    /\ SYSFS_ROOT_DIR \in Roots
    /\ path_cache = {}
    /\ inserts = [i \in Ids |-> 0]
    /\ resolved = [i \in Ids |-> None]
    /\ lastWritten = [i \in Ids |-> None]
    /\ lastRead = [i \in Ids |-> None]
    /\ last = [op |-> "none", id |-> <<>>, res |-> Ok("unit"), again |-> FALSE]
    /\ arg = <<>>
    /\ c_string = None
    /\ path_buf = None
    /\ call = [c \in Callers |-> Idle]
    /\ borrow = Unborrowed

\* The steps of new() on the threads of T.
Creation(T) ==
    \/ \E t \in T, v \in {"unix", "legacy"}, d \in TempDirs : new(t, v, d)
    \/ \E t \in T : mkdtemp(t)
    \/ \E t \in T : last_os_error(t)
    \/ \E t \in T : from_raw(t)
    \/ \E t \in T : finish(t)

\* One caller: it creates handles, fills and protects their directories and
\* lets the handles go out of scope.
TempStep ==
    \/ Creation({"t1"})
    \/ \E i \in DOMAIN handles : drop(i)
    \/ \E i \in DOMAIN handles : add_file(i)
    \/ \E i \in DOMAIN handles : add_dir(i)
    \/ \E i \in DOMAIN handles : chmod(i)

\* Concurrent callers: the steps of their new() calls interleave.
ConcurrentStep ==
    \/ Creation(Threads)
    \/ \E i \in DOMAIN handles : drop(i)
    \/ \E i \in DOMAIN handles : add_file(i)

SpecTemp == Init /\ [][TempStep]_vars

SpecConcurrent == Init /\ [][ConcurrentStep]_vars

\* A single caller of one store.
SpecStore == Init /\ [][StoreStep]_vars

\* One caller that owns temporary directories and uses a store on a device
\* that does not exist: every fallible operation of the crate can fail.
FailureStep ==
    \/ TempStep
    \/ read(IdGone)
    \/ read_to_string(IdGone)
    \/ \E c \in Contents : write(IdGone, c)

SpecFailures == Init /\ [][FailureStep]_vars

\* One caller whose operations follow one another.
SequentialStep == OperationStep("c1")

SpecSequential == Init /\ [][SequentialStep]_vars

\* Two callers whose operations overlap the one way a store allows (the
\* RefCell keeps a store on one thread): while c1 is inside the fs::write of
\* a write, the as_ref() of its contents runs operations of c2 on the store.
OverlappingStep ==
    \/ call["c2"].pc = "idle" /\ OperationStep("c1")
    \/ call["c1"].pc = "io" /\ call["c1"].op = "write" /\ OperationStep("c2")

SpecOverlapping == Init /\ [][OverlappingStep]_vars

\* The conversions of unix::convert applied to every path of PathBufs.
SpecConvert == Init /\ [][ConvertStep]_vars

\* One caller of a store while the test helper tries to set the root again.
RootStep ==
    \/ StoreStep
    \/ \E name \in Names : mock_sysfs_dir(name)

SpecRoot == Init /\ [][RootStep]_vars

(***************************************************************************)
(* The claims.                                                             *)
(***************************************************************************)
\* The handle i goes out of scope in this step.
GoesOutOfScope(i) == i \in DOMAIN handles /\ i \notin DOMAIN handles'

\* C1: whenever a handle goes out of scope, its path no longer exists, for
\* either Drop implementation and whatever files and sub-directories the
\* caller created beneath the directory during the handle's lifetime.  The
\* removals that fail because the caller took permissions away (the best
\* effort of teardown) are left aside: no directory is protected.
C1_PathGoneAfterScope ==
    [][\A i \in DOMAIN handles :
          GoesOutOfScope(i) /\ protected = {}
             => Key(handles[i].path) \notin DOMAIN fsys']_vars

\* C2: every path a successful new() returns did not exist just before the
\* native call created it and was the path of no live handle, and no two live
\* handles have the same path, whether the calls are sequential or interleave.
C2_UniquePath ==
    /\ \A t \in Threads : ptr[t] = "template" => ~taken[t]
    /\ \A i \in DOMAIN handles : ~handles[i].taken
    /\ \A i, j \in DOMAIN handles :
          i # j => ~PathEq(handles[i].path, handles[j].path)

\* Two calls whose steps interleaved: mkdtemp has succeeded in both before
\* either returned, and the two buffers hold different paths.
C2_Witness ==
    /\ pc["t1"] = "return" /\ ptr["t1"] = "template"
    /\ pc["t2"] = "return" /\ ptr["t2"] = "template"
    /\ ~PathEq(owned_path("t1"), owned_path("t2"))

\* Path::starts_with: the components of base are a prefix of those of p.
StartsWith(p, base) ==
    /\ Components(p).root = Components(base).root
    /\ Len(Key(base)) <= Len(Key(p))
    /\ SubSeq(Key(p), 1, Len(Key(base))) = Key(base)

\* C3: from a successful new() until the handle is released, path() is the
\* same value, and it denotes an existing directory under the temporary-file
\* root that env::temp_dir() gave the call.
C3_LivePathIsDirectory ==
    /\ [](\A i \in DOMAIN handles :
            /\ IsDir(Key(handles[i].path))
            /\ StartsWith(handles[i].path, handles[i].root)
            /\ Key(handles[i].path) # Key(handles[i].root))
    /\ [][\A i \in DOMAIN handles \cap DOMAIN handles' :
            handles'[i].path = handles[i].path]_vars

\* A live handle whose directory the caller has filled and protected.
C3_Witness ==
    \E i \in DOMAIN handles :
        /\ Beneath(Key(handles[i].path)) # {}
        /\ Key(handles[i].path) \in protected

Failed(t) == result[t] # None /\ ~result[t][1].ok

\* C9 as stated: every failure of new() is an error that wraps the native
\* error code.
C9_EveryFailureWrapsErrno ==
    \A t \in Threads :
        Failed(t) => result[t][1].err.kind = "Os" /\ result[t][1].err.code # None

\* C9 as amended: new() fails in both cases and produces no handle; when
\* mkdtemp returns null the error wraps the errno that call set; when the
\* template contains a nul byte mkdtemp is never called and the error is the
\* converted NulError, which holds no native error code.
C9_FailureCases ==
    /\ [](\A t \in Threads :
            /\ pc[t] # "idle" => ~HasNul(temp_dir[t]) /\ ~HasNul(to_bytes(template[t]))
            /\ Failed(t) =>
                  \/ /\ HasNul(temp_dir[t])
                     /\ ~result[t][1].called
                     /\ result[t][1].err = NulFailure(variant[t])
                     /\ result[t][1].err.code = None
                  \/ /\ ~HasNul(temp_dir[t])
                     /\ result[t][1].called
                     /\ errno[t] \in Errnos \cup {"EEXIST"}
                     /\ result[t][1].err = OsFailure(errno[t]))
    /\ [](removals + Cardinality(DOMAIN handles) = created)
    /\ [][\A t \in Threads :
            result'[t] # result[t] /\ result'[t] # None /\ ~result'[t][1].ok
               => handles' = handles /\ created' = created
                  /\ removals' = removals /\ fsys' = fsys]_vars

\* One call has failed on a nul byte, another on a null return of mkdtemp.
C9_Witness ==
    /\ Failed("t1") /\ ~result["t1"][1].called
    /\ Failed("t2") /\ result["t2"][1].called

\* C10: no two handles own one directory; the number of removals attempted is
\* the number of handles released; a removal is attempted only in the step
\* that releases a handle, once, and a live handle's directory stays.
C10_RemovedOnceAtRelease ==
    /\ [](/\ removals + Cardinality(DOMAIN handles) = created
          /\ \A i, j \in DOMAIN handles :
                i # j => Key(handles[i].path) # Key(handles[j].path))
    /\ [][/\ removals' # removals =>
                /\ removals' = removals + 1
                /\ \E i \in DOMAIN handles : GoesOutOfScope(i)
          /\ \A i \in DOMAIN handles :
                \/ GoesOutOfScope(i) /\ removals' = removals + 1
                \/ /\ i \in DOMAIN handles'
                   /\ handles'[i] = handles[i]
                   /\ Exists(Key(handles[i].path)) =>
                         Key(handles[i].path) \in DOMAIN fsys']_vars

\* One handle was released, its removal having failed, while another is live.
C10_Witness ==
    /\ removals = 1
    /\ created = 2
    /\ \E k \in protected : k \notin {Key(handles[i].path) : i \in DOMAIN handles}

\* C4 as stated: a read of id returns the contents of the most recent
\* successful write to id, whatever was read or written in between, writes
\* to other identifiers included.
C4_ReadReturnsLastWrite ==
    last.op = "read" /\ lastWritten[last.id] # None
        => last.res = Ok(lastWritten[last.id][1])

\* C5: a read of id that follows a read of id with no write in between
\* returns what that read returned, whatever else was read in between and
\* whatever the path cache gained.
C5_RepeatedReadSame ==
    [][/\ \A id \in Ids :
             lastRead[id] # None /\ lastRead'[id] # None
                => lastRead'[id] = lastRead[id]
       /\ last'.again =>
             lastRead[last'.id] # None /\ last'.res = lastRead[last'.id][1]]_vars

\* A read was repeated with no write in between and returned bytes, the
\* cache holding entries of other identifiers as well.
C5_Witness ==
    /\ last.again
    /\ last.res.ok
    /\ Cardinality(path_cache) >= 3
    /\ \E id \in Ids : lastWritten[id] # None

\* The path does not exist: a component of p is missing, everything before
\* it being a directory.
ComponentMissing(p) ==
    \E n \in 1 .. Len(Key(p)) :
        /\ ~Exists(SubSeq(Key(p), 1, n))
        /\ \A m \in 0 .. n - 1 : IsDir(SubSeq(Key(p), 1, m))

\* The directory that would hold p is missing.
ParentMissing(p) == ComponentMissing(p) /\ ~IsDir(Parent(Key(p)))

\* The path the operation of this step used.
UsedPath == resolved'[last'.id][1]

\* C6 as stated: read, read_to_string and write on an identifier whose
\* resolved path does not exist each return NotFound.
C6_AbsentPathIsNotFound ==
    [][ComponentMissing(UsedPath) => last'.res = Err("NotFound")]_vars

\* C6 as amended: no operation panics; a read or read_to_string of a path
\* that does not exist returns NotFound; a write returns NotFound when the
\* directory that would hold the path is missing, and changes nothing; when
\* only the file is missing the write creates it with the contents and
\* returns Ok.
C6_AbsentPathResults ==
    [][/\ UsedPath # Panic
       /\ last'.res # Err("panic")
       /\ ComponentMissing(UsedPath) =>
             /\ last'.op \in {"read", "read_to_string"} =>
                   last'.res = Err("NotFound") /\ fsys' = fsys
             /\ last'.op = "write" /\ ParentMissing(UsedPath) =>
                   last'.res = Err("NotFound") /\ fsys' = fsys
             /\ last'.op = "write" /\ ~ParentMissing(UsedPath)
                   /\ ~TrailingSlash(UsedPath) =>
                   /\ last'.res = Ok("unit")
                   /\ lastWritten'[last'.id] # None
                   /\ fsys' = fs_write_effect(UsedPath, lastWritten'[last'.id][1])
                   /\ fsys'[Key(UsedPath)].kind = "file"]_vars

\* Operations on a missing device have failed, a write has created a missing
\* attribute, and a later read through a cached key returned bytes.
C6_Witness ==
    /\ resolved[IdGone] # None
    /\ ~Exists(Key(Join(SYSFS_ROOT_DIR, IdGone)))
    /\ lastWritten[IdNew] # None
    /\ resolved[IdNpwmSlash] # None
    /\ inserts[IdNpwmSlash] = 0
    /\ last.op = "read" /\ last.id = IdNpwmSlash /\ last.res.ok

\* No two entries of the cache have equal keys.
KeysDistinct(cache) ==
    \A e, f \in cache : PathEq(e[1], f[1]) => e = f

\* C7: the cache only grows, by at most one entry per step; an entry is
\* inserted for an identifier at most once, by the first operation that uses
\* the identifier, with the join computed then; no entry is changed or
\* removed; every later operation on an identifier uses the path its first
\* operation used.
C7_CacheOnlyGrows ==
    /\ [](/\ \A id \in Ids : inserts[id] <= 1
          /\ KeysDistinct(path_cache)
          /\ \A id \in Ids :
                resolved[id] # None => get_cached_path(path_cache, id) = resolved[id][1])
    /\ [][/\ path_cache \subseteq path_cache'
          /\ Cardinality(path_cache') <= Cardinality(path_cache) + 1
          /\ \A e \in path_cache' \ path_cache :
                e = <<last'.id, Join(SYSFS_ROOT_DIR, last'.id)>>
          /\ \A id \in Ids :
                /\ inserts'[id] > inserts[id] =>
                      resolved[id] = None /\ path_cache' # path_cache
                /\ resolved[id] # None => resolved'[id] = resolved[id]]_vars

\* Every identifier has been used, one of them without gaining an entry, and
\* the last operation used an identifier again.
C7_Witness ==
    /\ \A id \in Ids : resolved[id] # None
    /\ Cardinality(path_cache) = Cardinality(Ids) - 1
    /\ last.again

\* C8 as stated: the key of an identifier is the identifier as given, and the
\* path used for it is the root joined with that identifier, whichever other
\* identifiers were resolved before.
C8_KeyIsIdentifierAsGiven ==
    \A id \in Ids :
        resolved[id] # None =>
            /\ \E e \in path_cache : e[1] = id
            /\ resolved[id][1] = Join(SYSFS_ROOT_DIR, id)

\* The removal that drop would attempt for handle i fails.
RemovalFails(i) ==
    IF handles[i].variant = "unix"
    THEN ~remove_dir_all_result(handles[i].path).ok
    ELSE ~remove_dir_result(handles[i].path).ok

\* C11: a handle can always be released; the release attempts the removal
\* once and, also when the removal fails, returns nothing to anyone (no
\* result changes) and leaves the handle gone.  Every other failure is what
\* the caller gets: a null return of mkdtemp gives the error of its errno,
\* and a store operation gives the result of its read or write as it is.
C11_OnlyTeardownSwallows ==
    /\ [](\A i \in DOMAIN handles : ENABLED drop(i))
    /\ [][/\ \A i \in DOMAIN handles :
                GoesOutOfScope(i) =>
                    /\ removals' = removals + 1
                    /\ result' = result
                    /\ last' = last
                    /\ DOMAIN handles' = DOMAIN handles \ {i}
                    /\ RemovalFails(i) => fsys' = fsys
          /\ \A t \in Threads :
                pc[t] = "return" /\ pc'[t] = "idle" /\ ptr[t] = "null" =>
                    /\ Failed(t)'
                    /\ result'[t][1].err = OsFailure(errno[t])
          /\ last' # last =>
                last'.res = CASE last'.op = "read" -> fs_read(UsedPath)
                              [] last'.op = "read_to_string" -> fs_read_to_string(UsedPath)
                              [] OTHER -> fs_write_result(UsedPath)]_vars

\* A handle was released with its removal failing (its directory is still
\* there, protected and owned by no handle), a new() has failed, and the last
\* store operation failed.
C11_Witness ==
    /\ removals >= 1
    /\ \E k \in protected :
          k \in DOMAIN fsys /\ k \notin {Key(handles[i].path) : i \in DOMAIN handles}
    /\ Failed("t1")
    /\ last.op = "write" /\ ~last.res.ok

\* C12: the root never changes once the store exists, whatever tries to set
\* it again, and every entry of the cache is its identifier joined onto
\* that one root.
C12_RootFixed ==
    /\ [](/\ SYSFS_ROOT_DIR \in Roots
          /\ \A e \in path_cache : e[2] = Join(SYSFS_ROOT_DIR, e[1]))
    /\ [][SYSFS_ROOT_DIR' = SYSFS_ROOT_DIR]_vars

\* Identifiers were resolved before and after an attempt to set the root.
C12_Witness ==
    /\ Cardinality(path_cache) >= 2
    /\ \E id \in Ids : inserts[id] = 1 /\ lastWritten[id] # None
    /\ last.op = "set"

\* C13: path_buf_to_c_string fails exactly when the path has a nul byte;
\* otherwise the C string is the bytes of the path and then the terminator,
\* and c_string_to_path_buf gives back the path, byte for byte.
C13_ConvertRoundTrip ==
    /\ c_string # None =>
          /\ ~c_string[1].ok <=> HasNul(arg)
          /\ c_string[1].ok =>
                /\ Len(c_string[1].val) = Len(arg) + 1
                /\ \A i \in 1 .. Len(arg) : c_string[1].val[i] = arg[i]
                /\ c_string[1].val[Len(arg) + 1] = "NUL"
    /\ path_buf # None => path_buf[1] = arg

\* A path of full length with separators was converted and converted back.
C13_Witness ==
    /\ Len(arg) = MaxLen
    /\ arg[1] = "/" /\ arg[MaxLen] = "/"
    /\ path_buf # None

\* C14: only a failing mkdtemp of thread t writes the channel of t; the step
\* of t that follows its mkdtemp is the read of the channel; and when mkdtemp
\* has returned null the error read, and then returned to the caller, is the
\* one that call set, whatever the other thread's calls set meanwhile.
C14_ErrorReadRightAfterCall ==
    /\ [](\A t \in Threads :
            pc[t] \in {"from_raw", "return"} /\ ptr[t] = "null" =>
                error[t] = errno[t] /\ errno[t] \in Errnos \cup {"EEXIST"})
    /\ [][\A t \in Threads :
            /\ errno'[t] # errno[t] =>
                  pc[t] = "mkdtemp" /\ pc'[t] = "last_os_error" /\ ptr'[t] = "null"
            /\ pc[t] = "mkdtemp" /\ pc'[t] # pc[t] => pc'[t] = "last_os_error"
            /\ pc[t] = "last_os_error" /\ pc'[t] # pc[t] =>
                  pc'[t] = "from_raw" /\ error'[t] = errno[t]
            /\ pc[t] = "return" /\ pc'[t] = "idle" /\ ptr[t] = "null" =>
                  result'[t][1].err = OsFailure(errno[t])]_vars

\* Two calls have failed at mkdtemp with different errors, the second thread
\* having failed while the first was between its mkdtemp and its return.
C14_Witness ==
    /\ Failed("t1") /\ result["t1"][1].called
    /\ Failed("t2") /\ result["t2"][1].called
    /\ result["t1"][1].err # result["t2"][1].err

\* p ends with the bytes of suffix.
EndsWith(p, suffix) ==
    /\ Len(p) >= Len(suffix)
    /\ SubSeq(p, Len(p) - Len(suffix) + 1, Len(p)) = suffix

\* C15: the path of a handle is its root joined with a name mkdtemp wrote
\* into the buffer; it is not the template the call started from and does
\* not end in the placeholder; and the CString reclaimed after a successful
\* mkdtemp is not the template as it was before the call.
C15_PathFromMutatedBuffer ==
    /\ \A i \in DOMAIN handles :
          /\ \E name \in Names : handles[i].path = Join(handles[i].root, name)
          /\ handles[i].path # Join(handles[i].root, Placeholder)
          /\ ~EndsWith(handles[i].path, Placeholder)
    /\ \A t \in Threads :
          /\ result[t] # None /\ result[t][1].ok =>
                ~EndsWith(result[t][1].val, Placeholder)
          /\ pc[t] = "return" /\ ptr[t] = "template" =>
                path[t] # get_temp_dir_template(temp_dir[t]).val

\* Handles of both new() exist, each with a name of its own.
C15_Witness ==
    /\ Cardinality(DOMAIN handles) = 2
    /\ \E i, j \in DOMAIN handles :
          handles[i].variant = "unix" /\ handles[j].variant = "legacy"
    /\ result["t1"] # None /\ result["t1"][1].ok

\* C20: the buffer is with the native side from into_raw until from_raw, and
\* with Rust from from_raw until the call returns; it is reclaimed in the
\* from_raw step only, which comes after mkdtemp and the read of the error,
\* whether mkdtemp succeeded or not; it is never lost nor reclaimed again.
C20_BufferReclaimedOnce ==
    /\ [](\A t \in Threads :
            /\ owned[t] \in {"none", "native", "rust"}
            /\ owned[t] = "native" <=> pc[t] \in {"mkdtemp", "last_os_error", "from_raw"}
            /\ owned[t] = "rust" <=> pc[t] = "return"
            /\ owned[t] = "native" <=> template[t] # <<>>
            /\ owned[t] = "rust" <=> path[t] # <<>>)
    /\ [][\A t \in Threads :
            /\ owned'[t] = "native" /\ owned[t] # "native" =>
                  owned[t] = "none" /\ pc[t] = "idle"
            /\ owned[t] = "native" /\ owned'[t] # "native" =>
                  /\ owned'[t] = "rust"
                  /\ pc[t] = "from_raw"
                  /\ path'[t] = template[t]
            /\ owned'[t] = "rust" /\ owned[t] # "rust" => owned[t] = "native"
            /\ owned[t] = "rust" /\ owned'[t] # "rust" => owned'[t] = "none"]_vars

\* One call has returned a directory and another an error of mkdtemp, the
\* buffers of both being gone.
C20_Witness ==
    /\ result["t1"] # None /\ result["t1"][1].ok
    /\ Failed("t2") /\ result["t2"][1].called
    /\ owned["t1"] = "none" /\ owned["t2"] = "none"

\* C17 as stated: the path every operation uses has the root as its prefix,
\* whatever the identifier, an absolute one included.
C17_IoUnderRoot ==
    \A id \in Ids :
        resolved[id] # None => StartsWith(resolved[id][1], SYSFS_ROOT_DIR)

\* C18: every operation looks up an identifier the cache holds by then, so
\* the lookup finds a path, the one the operation uses, and no operation ends
\* in the panic of the expect; every identifier used stays in the cache.
C18_LookupFindsEntry ==
    /\ [](\A id \in Ids :
            resolved[id] # None =>
                has_cached_path(path_cache, id) /\ resolved[id][1] # Panic)
    /\ [][/\ has_cached_path(path_cache', last'.id)
          /\ \E e \in path_cache' : PathEq(e[1], last'.id) /\ e[2] = UsedPath
          /\ UsedPath # Panic
          /\ last'.res # Err("panic")]_vars

\* Every identifier was looked up, the last by read_to_string through an
\* entry another identifier had inserted.
C18_Witness ==
    /\ \A id \in Ids : resolved[id] # None
    /\ last.op = "read_to_string"
    /\ inserts[last.id] = 0

\* C19: the mutable borrow is requested only when no borrow is outstanding;
\* at most one shared borrow is out at a time, held only inside the
\* membership test or by an operation between its lookup and its return;
\* between operations the cache is not borrowed; no operation panics.
C19_BorrowsNeverConflict ==
    /\ [](/\ borrow.shared <= 1
          /\ ~(borrow.mut /\ borrow.shared > 0)
          /\ \A c \in Callers : call[c].pc # "panicked"
          /\ (\A c \in Callers :
                call[c].pc \in {"idle", "has_cached_path", "resolve_attribute_path",
                                "cache_path", "get_cached_path"}) <=>
                      borrow = Unborrowed
          /\ (\E c \in Callers : call[c].pc = "insert") <=> borrow.mut
          /\ (\E c \in Callers : call[c].pc \in {"contains_key", "io", "return"}) <=>
                      borrow.shared = 1)
    /\ [][borrow'.mut /\ ~borrow.mut => borrow = Unborrowed]_vars

\* A write has inserted an entry and created the file, and a later operation
\* on another identifier is at its insert, the cache mutably borrowed.
C19_Witness ==
    /\ call["c1"].pc = "insert"
    /\ borrow.mut
    /\ path_cache # {}
    /\ Exists(Key(Join(SYSFS_ROOT_DIR, IdNew)))

====
